---- MODULE Spec2Model ----
(***************************************************************************)
(* Model of the UBA pasantias monitor: the scrape cycle of                 *)
(* PasantiasWebScraper (scraper.py) over the JSON data file, and the       *)
(* check_for_new_offers step of PasantiasMonitor (scheduler.py).           *)
(*                                                                         *)
(* A document is a sequence of tokens (an h2 heading, a "Busqueda No <n>"  *)
(* marker, a long filler block); a token's position is the sum of the      *)
(* lengths of the tokens before it, as in the serialized html_text.        *)
(* The data file is absent, a valid JSON object or a truncated (corrupt)   *)
(* file left by an interrupted write; an intact file is always readable.   *)
(* An offer record is kept by its numero_busqueda and its area; the pages  *)
(* of the cycle model are built from headings and markers only, and all    *)
(* their sections are processed without error.                             *)
(*                                                                         *)
(* SpecCalls runs the functions of the scraper one call at a time on       *)
(* bounded inputs: extract_offers over any token sequence with a set of    *)
(* failing sections, _extract_offer_details_new with the answer of the     *)
(* detail page, and the three field extractors over the pieces of a        *)
(* section's text.                                                         *)
(***************************************************************************)
EXTENDS Integers, Sequences, FiniteSets, TLC

\* ---------------------------------------------------------------- bounds
MaxBlocks == 2
MaxCycles == 2
HeadingLen == 10
MarkerLen == 13
FillerLen == 2000
MaxSegLen == 4
MaxTextLen == 4
MaxFieldLen == 3
MaxIterations == 3

\* ------------------------------------------------------ program constants
Window == 2000
LogCap == 100

Procs == {1, 2}
None == "None"
Ids == {1, 2}
Areas == {"A", "B"}
DeniedHeading == "accesos directos"

Heading(t) == [kind |-> "h2", text |-> t, id |-> 0]
Marker(n) == [kind |-> "marker", text |-> "", id |-> n]
Filler == [kind |-> "filler", text |-> "", id |-> 0]
\* the marker's words with no digit after them; id 0 stands for the empty digit string
BareMarker == [kind |-> "marker_nodigits", text |-> "", id |-> 0]
\* the pages the monitored site serves: up to MaxBlocks headings, each alone or followed
\* by a marker
Blocks == {<<Heading(t)>> : t \in Areas} \cup {<<Heading(t), Marker(n)>> : t \in Areas, n \in Ids}

RECURSIVE DocsOf(_)
DocsOf(n) == IF n = 0 THEN {<<>>} ELSE LET ds == DocsOf(n - 1) IN ds \cup {d \o b : d \in ds, b \in Blocks}

Docs == DocsOf(MaxBlocks)

TokLen(tok) ==
  CASE tok.kind = "h2" -> HeadingLen
    [] tok.kind = "marker" -> MarkerLen
    [] tok.kind = "marker_nodigits" -> MarkerLen - 1
    [] OTHER -> FillerLen

\* the pages handed to extract_offers on its own: any sequence of up to MaxSegLen tokens
SegTokens ==
  {Heading(t) : t \in Areas \cup {DeniedHeading}} \cup {Marker(n) : n \in Ids} \cup {BareMarker, Filler}

RECURSIVE SeqsOf(_, _)
SeqsOf(S, n) == IF n = 0 THEN {<<>>} ELSE LET ss == SeqsOf(S, n - 1) IN ss \cup {Append(q, x) : q \in {r \in ss : Len(r) = n - 1}, x \in S}

SegDocs == SeqsOf(SegTokens, MaxSegLen)

RECURSIVE Pos(_, _)
\* offset in html_text of the i-th token (1-based index, 0-based offset)
Pos(doc, i) == IF i <= 1 THEN 0 ELSE Pos(doc, i - 1) + TokLen(doc[i - 1])

DocLen(doc) == Pos(doc, Len(doc) + 1)

Min(S) == CHOOSE x \in S : \A y \in S : x <= y
Max(S) == CHOOSE x \in S : \A y \in S : x >= y

Denylisted(text) == text = DeniedHeading

\* html_text.find(str(h2)): the first token with the same markup
FindHeading(doc, i) == Min({j \in 1..Len(doc) : doc[j] = doc[i]})

\* a search that takes the marker's words without a digit after them as a match
MarkerMatches_noDigits(doc, j) == {k \in j..Len(doc) : doc[k].kind \in {"marker", "marker_nodigits"} /\ Pos(doc, k) + MarkerLen <= Pos(doc, j) + Window}

\* re.search of the marker in html_text[h2_pos:h2_pos + 2000]
MarkerMatches(doc, j) == {k \in j..Len(doc) : doc[k].kind = "marker" /\ Pos(doc, k) + MarkerLen <= Pos(doc, j) + Window}

RECURSIVE offer_sections_from(_, _)
offer_sections_from(doc, i) ==
  IF i > Len(doc) THEN <<>>
  ELSE IF doc[i].kind # "h2" \/ Denylisted(doc[i].text) THEN offer_sections_from(doc, i + 1)
  ELSE LET j == FindHeading(doc, i)
           ms == MarkerMatches(doc, j)
       IN IF ms = {} THEN offer_sections_from(doc, i + 1)
          ELSE <<[area |-> doc[i].text, h2_pos |-> Pos(doc, j),
                  offer_number |-> doc[Min(ms)].id, match_pos |-> Pos(doc, Min(ms))]>>
               \o offer_sections_from(doc, i + 1)

offer_sections(doc) == offer_sections_from(doc, 1)

\* the span of html_text cut out for the i-th section: from its h2_pos up to the h2_pos of
\* the next section, or to the end of the text for the last one; a slice whose end is not
\* after its start is empty
section_span(doc, i) ==
  LET secs == offer_sections(doc)
  IN [start_pos |-> secs[i].h2_pos,
      end_pos |-> IF i + 1 <= Len(secs) THEN secs[i + 1].h2_pos ELSE DocLen(doc)]

\* the record of one section; of its fields the model keeps the id and the area
extract_offer_details_new(section) ==
  [numero_busqueda |-> section.offer_number, area |-> section.area]

extract_offers(doc) ==
  LET secs == offer_sections(doc)
  IN [i \in 1..Len(secs) |-> extract_offer_details_new(secs[i])]

RECURSIVE process_sections_abort(_, _, _)
\* the loop over the sections where a failing section ends the loop
process_sections_abort(secs, i, fail) ==
  IF i > Len(secs) \/ i \in fail THEN <<>>
  ELSE <<extract_offer_details_new(secs[i])>> \o process_sections_abort(secs, i + 1, fail)

RECURSIVE process_sections(_, _, _)
\* the loop of extract_offers over the sections from the i-th on, where the processing of
\* the sections in fail raises: the exception is caught per section and the loop goes on
process_sections(secs, i, fail) ==
  IF i > Len(secs) THEN <<>>
  ELSE (IF i \in fail THEN <<>> ELSE <<extract_offer_details_new(secs[i])>>)
       \o process_sections(secs, i + 1, fail)

\* extract_offers over a page some of whose sections fail
extract_offers_failing(doc, fail) == process_sections(offer_sections(doc), 1, fail)

\* ------------------------------------------------------------ enrichment
\* The text of a detail page is a sequence of pieces: the instructional phrase up to its
\* colon, a run of whitespace, a character that cannot be part of an address, or an address.
\* An address ends where the text ends or a piece of the two latter kinds begins.
PhraseTok == "envíe un mail adjuntando su CV a:"
SpaceTok == " "
PunctTok == "("
EmailToks == {"jobs@acme.com", "rrhh@estudio.com.ar", "pasantia@derecho.uba.ar", "Pasantia@Derecho.UBA.ar"}
PageToks == {PhraseTok, SpaceTok, PunctTok} \cup EmailToks
PageTexts ==
  {t \in SeqsOf(PageToks, MaxTextLen) :
     \A i \in 1..(Len(t) - 1) : t[i] \in EmailToks => t[i + 1] \in {SpaceTok, PunctTok}}

exclude_emails ==
  {"diralumnos@derecho.uba.ar", "posgrado@derecho.uba.ar", "biblio@derecho.uba.ar", "pasantia@derecho.uba.ar"}

\* str.lower() on the addresses of the model
Lower(e) == IF e = "Pasantia@Derecho.UBA.ar" THEN "pasantia@derecho.uba.ar" ELSE e

RECURSIVE skip_space(_, _)
\* the index of the first piece at or after i that is not whitespace
skip_space(text, i) == IF i <= Len(text) /\ text[i] = SpaceTok THEN skip_space(text, i + 1) ELSE i

RECURSIVE context_match(_, _)
\* re.search of the phrase pattern from piece i on: the address of the first occurrence of
\* the phrase that is followed, after optional whitespace, by an address; None without one
context_match(text, i) ==
  IF i > Len(text) THEN None
  ELSE LET j == skip_space(text, i + 1)
       IN IF text[i] = PhraseTok /\ j <= Len(text) /\ text[j] \in EmailToks THEN text[j]
          ELSE context_match(text, i + 1)

\* re.findall of the address pattern
email_matches(text) == SelectSeq(text, LAMBDA t : t \in EmailToks)

RECURSIVE first_contact_caseSensitive(_, _)
\* the fallback loop comparing the address as written with the exclusion list
first_contact_caseSensitive(emails, i) ==
  IF i > Len(emails) THEN None
  ELSE IF emails[i] \notin exclude_emails THEN emails[i]
  ELSE first_contact_caseSensitive(emails, i + 1)

RECURSIVE first_contact(_, _)
\* the fallback loop: the first address whose lower-cased form is not excluded
first_contact(emails, i) ==
  IF i > Len(emails) THEN None
  ELSE IF Lower(emails[i]) \notin exclude_emails THEN emails[i]
  ELSE first_contact(emails, i + 1)

RECURSIVE clean_text_from(_, _)
\* re.sub(r'\s+', ' ', text).strip(): runs of whitespace become one space, none is left at
\* either end
clean_text_from(text, i) ==
  IF i > Len(text) THEN <<>>
  ELSE IF text[i] = SpaceTok
       THEN LET j == skip_space(text, i)
            IN IF i = 1 \/ j > Len(text) THEN clean_text_from(text, j)
               ELSE <<SpaceTok>> \o clean_text_from(text, j)
  ELSE <<text[i]>> \o clean_text_from(text, i + 1)

clean_text(text) == clean_text_from(text, 1)

\* the answer of the detail page: a failure of the request or of the parsing, or its text
FailedPage == [ok |-> FALSE, text |-> <<>>]
PageOf(text) == [ok |-> TRUE, text |-> text]
Pages == {FailedPage} \cup {PageOf(t) : t \in PageTexts}

EmptyInfo == [k \in {} |-> None]

\* _fetch_detailed_info that leaves an empty description behind when the page fails
fetch_detailed_info_emptyDesc(page) ==
  IF ~page.ok THEN [k \in {"descripcion_completa"} |-> <<>>]
  ELSE LET cm == context_match(page.text, 1)
           email == IF cm # None THEN cm ELSE first_contact(email_matches(page.text), 1)
       IN [k \in (IF email # None THEN {"contacto_email"} ELSE {}) \cup {"descripcion_completa"} |->
             IF k = "contacto_email" THEN email ELSE clean_text(page.text)]

\* the dict _fetch_detailed_info returns: {} when anything fails
fetch_detailed_info(page) ==
  IF ~page.ok THEN EmptyInfo
  ELSE LET cm == context_match(page.text, 1)
           email == IF cm # None THEN cm ELSE first_contact(email_matches(page.text), 1)
       IN [k \in (IF email # None THEN {"contacto_email"} ELSE {}) \cup {"descripcion_completa"} |->
             IF k = "contacto_email" THEN email ELSE clean_text(page.text)]

\* a merge in which a key the record already has keeps its value
dict_update_keep(d, u) == [k \in DOMAIN d \cup DOMAIN u |-> IF k \in DOMAIN d THEN d[k] ELSE u[k]]

\* dict.update
dict_update(d, u) == [k \in DOMAIN d \cup DOMAIN u |-> IF k \in DOMAIN u THEN u[k] ELSE d[k]]

DetailUrl == "https://www.derecho.uba.ar/detalle"

\* offer_data as built from the listing page; url is None when the section has no link
offer_data(offer_number, area, url) ==
  [numero_busqueda |-> offer_number, area |-> area, contacto_email |-> None, mas_informacion_url |-> url]

\* _extract_offer_details_new with the answer of the detail page
extract_offer_details_enriched(offer_number, area, url, page) ==
  LET base == offer_data(offer_number, area, url)
      detailed_info == IF url # None THEN fetch_detailed_info(page) ELSE EmptyInfo
  IN IF url # None /\ DOMAIN detailed_info # {} THEN dict_update(base, detailed_info) ELSE base

\* ------------------------------------------------------- field extractors
\* The text of a section is a sequence of pieces: the labels, a date, an amount, a dollar
\* sign, a word, a whitespace character.
FechaLabel == "Fecha de publicación:"
DateTok == "12-03-2024"
HorarioLabel == "Horario:"
AsignWord == "Asignación"
EstimuloLabel == "estímulo:"
DollarTok == "$"
NumTok == "1.500"
WordTok == "lunes"
FieldToks == {FechaLabel, DateTok, HorarioLabel, AsignWord, EstimuloLabel, DollarTok, NumTok, WordTok, SpaceTok}
FieldTexts == SeqsOf(FieldToks, MaxFieldLen)
\* the pieces that hold a colon
ColonToks == {FechaLabel, HorarioLabel, EstimuloLabel}
\* the digits a date begins with
DatePrefix == "12"

\* what an extractor returns: None, or a string given by its pieces (<<>> is '')
NotFound == [found |-> FALSE, value |-> <<>>]
Found(v) == [found |-> TRUE, value |-> v]

RECURSIVE extract_fecha_from(_, _)
\* re.search of the date pattern from piece i on
extract_fecha_from(text, i) ==
  IF i > Len(text) THEN NotFound
  ELSE LET j == skip_space(text, i + 1)
       IN IF text[i] = FechaLabel /\ j <= Len(text) /\ text[j] = DateTok THEN Found(<<DateTok>>)
          ELSE extract_fecha_from(text, i + 1)

extract_fecha_publicacion(text) == extract_fecha_from(text, 1)

RECURSIVE strip(_)
\* str.strip()
strip(g) ==
  IF g = <<>> THEN g
  ELSE IF Head(g) = SpaceTok THEN strip(Tail(g))
  ELSE IF g[Len(g)] = SpaceTok THEN strip(SubSeq(g, 1, Len(g) - 1))
  ELSE g

\* the ends e of a group [^:]+? that starts at piece s: the pieces s..e-1 hold no colon and
\* the lookahead (?=Asignación|$) holds at e
GroupEnds(text, s) ==
  {e \in (s + 1)..(Len(text) + 1) :
     /\ \A k \in s..(e - 1) : text[k] \notin ColonToks
     /\ (e = Len(text) + 1 \/ text[e] = AsignWord)}

\* the match of the schedule pattern at the label at piece i: \s* takes all the whitespace
\* and the group is the shortest that reaches a lookahead; when there is none, \s* gives
\* its last whitespace character back to the group if a lookahead holds right after it
horario_at(text, i) ==
  LET j == skip_space(text, i + 1)
  IN IF j <= Len(text) /\ GroupEnds(text, j) # {}
     THEN Found(strip(SubSeq(text, j, Min(GroupEnds(text, j)) - 1)))
     ELSE IF j > i + 1 /\ (j > Len(text) \/ text[j] = AsignWord)
     THEN Found(strip(SubSeq(text, j - 1, j - 1)))
     ELSE NotFound

RECURSIVE extract_horario_from(_, _)
extract_horario_from(text, i) ==
  IF i > Len(text) THEN NotFound
  ELSE IF text[i] = HorarioLabel /\ horario_at(text, i).found THEN horario_at(text, i)
  ELSE extract_horario_from(text, i + 1)

extract_horario(text) == extract_horario_from(text, 1)

RECURSIVE digits_from(_, _)
\* the longest run of [\d.,] from piece k on
digits_from(text, k) ==
  IF k > Len(text) THEN <<>>
  ELSE IF text[k] = NumTok THEN <<NumTok>> \o digits_from(text, k + 1)
  ELSE IF text[k] = DateTok THEN <<DatePrefix>>
  ELSE <<>>

\* the match of the stipend pattern at the word at piece i
asignacion_at(text, i) ==
  LET j == skip_space(text, i + 1)
      k == skip_space(text, j + 1)
      d == IF k <= Len(text) /\ text[k] = DollarTok THEN k + 1 ELSE k
  IN IF j <= Len(text) /\ text[j] = EstimuloLabel /\ digits_from(text, d) # <<>>
     THEN Found(digits_from(text, d))
     ELSE NotFound

RECURSIVE extract_asignacion_from(_, _)
extract_asignacion_from(text, i) ==
  IF i > Len(text) THEN NotFound
  ELSE IF text[i] = AsignWord /\ asignacion_at(text, i).found THEN asignacion_at(text, i)
  ELSE extract_asignacion_from(text, i + 1)

extract_asignacion(text) == extract_asignacion_from(text, 1)

\* the three fields as _extract_offer_details_new fills them from the text of the section
extract_fields(text) ==
  [fecha_publicacion |-> extract_fecha_publicacion(text),
   horario |-> extract_horario(text),
   asignacion_estimulo |-> extract_asignacion(text)]

\* ------------------------------------------------------------ data file
EmptyMap == [k \in {} |-> None]
AbsentFile == [kind |-> "absent", ofertas |-> EmptyMap, ultima_actualizacion |-> 0]
CorruptFile == [kind |-> "corrupt", ofertas |-> EmptyMap, ultima_actualizacion |-> 0]
ValidFile(ofertas, stamp) == [kind |-> "valid", ofertas |-> ofertas, ultima_actualizacion |-> stamp]

\* the dict load_previous_data returns; {} has no 'ofertas' key
EmptyDict == [has_ofertas |-> FALSE, ofertas |-> EmptyMap, ultima_actualizacion |-> 0]

load_previous_data(f) ==
  IF f.kind = "valid"
  THEN [has_ofertas |-> TRUE, ofertas |-> f.ofertas, ultima_actualizacion |-> f.ultima_actualizacion]
  ELSE EmptyDict

OfferIds(offers) == {offers[i].numero_busqueda : i \in DOMAIN offers}

\* {offer['numero_busqueda']: offer for offer in offers}: a later offer replaces an earlier one
offers_dict(offers) ==
  [k \in OfferIds(offers) |-> offers[Max({i \in DOMAIN offers : offers[i].numero_busqueda = k})]]

\* save_data that leaves the loaded mapping as it was
save_data_noMerge(offers, existing_data, stamp) ==
  [has_ofertas |-> TRUE,
   ofertas |-> IF existing_data.has_ofertas THEN existing_data.ofertas ELSE EmptyMap,
   ultima_actualizacion |-> stamp]

\* save_data where a stored record is kept over the current one
save_data_oldWins(offers, existing_data, stamp) ==
  LET od == offers_dict(offers)
      old == IF existing_data.has_ofertas THEN existing_data.ofertas ELSE EmptyMap
  IN [has_ofertas |-> TRUE,
      ofertas |-> [k \in DOMAIN old \cup DOMAIN od |-> IF k \in DOMAIN old THEN old[k] ELSE od[k]],
      ultima_actualizacion |-> stamp]

\* save_data that stores the current offers only
save_data_onlyCurrent(offers, existing_data, stamp) ==
  [has_ofertas |-> TRUE, ofertas |-> offers_dict(offers), ultima_actualizacion |-> stamp]

\* existing_data after lines 379-386 of save_data
save_data(offers, existing_data, stamp) ==
  LET od == offers_dict(offers)
      old == IF existing_data.has_ofertas THEN existing_data.ofertas ELSE EmptyMap
  IN [has_ofertas |-> TRUE,
      ofertas |-> [k \in DOMAIN old \cup DOMAIN od |-> IF k \in DOMAIN od THEN od[k] ELSE old[k]],
      ultima_actualizacion |-> stamp]

\* the file after the open(..., 'w') / json.dump of save_data, by outcome of the write
write_file(f, data, outcome) ==
  IF outcome = "ok" THEN ValidFile(data.ofertas, data.ultima_actualizacion)
  ELSE IF outcome = "partial" THEN CorruptFile
  ELSE f

RECURSIVE find_new_loop(_, _, _)
find_new_loop(current_offers, previous_offers, i) ==
  IF i > Len(current_offers) THEN <<>>
  ELSE (IF current_offers[i].numero_busqueda \notin DOMAIN previous_offers
        THEN <<current_offers[i]>> ELSE <<>>)
       \o find_new_loop(current_offers, previous_offers, i + 1)

\* find_new_offers comparing whole records instead of ids
find_new_offers_byRecord(current_offers, previous_data) ==
  LET prevs == IF previous_data.has_ofertas THEN previous_data.ofertas ELSE EmptyMap
  IN SelectSeq(current_offers, LAMBDA o : \A k \in DOMAIN prevs : prevs[k] # o)

\* find_new_offers reporting nothing when the loaded data has no 'ofertas'
find_new_offers_coldEmpty(current_offers, previous_data) ==
  IF previous_data.has_ofertas THEN find_new_loop(current_offers, previous_data.ofertas, 1) ELSE <<>>

find_new_offers(current_offers, previous_data) ==
  find_new_loop(current_offers, IF previous_data.has_ofertas THEN previous_data.ofertas ELSE EmptyMap, 1)

\* a data file that holds valid JSON which is not an object (a list, a string, null),
\* written by something other than save_data: json.load returns it as it is
ForeignFile == [kind |-> "foreign", ofertas |-> EmptyMap, ultima_actualizacion |-> 0]

\* find_new_offers whose except branch reports nothing
find_new_offers_failClosed(current_offers, f) ==
  IF f.kind = "foreign" THEN <<>> ELSE find_new_offers(current_offers, load_previous_data(f))

\* find_new_offers putting each new offer in front of the ones found before
find_new_offers_prepend(current_offers, f) ==
  IF f.kind = "foreign" THEN current_offers
  ELSE LET found == find_new_offers(current_offers, load_previous_data(f))
       IN [i \in 1..Len(found) |-> found[Len(found) + 1 - i]]

\* find_new_offers with its try/except, over the data file f: previous_data.get raises on
\* a loaded value that is not a dict, and the except branch returns current_offers
find_new_offers_guarded(current_offers, f) ==
  IF f.kind = "foreign" THEN current_offers
  ELSE find_new_offers(current_offers, load_previous_data(f))

\* scrape() saving before it detects
scrape_flow_saveFirst(stage, soupv, offers) ==
  CASE stage = "fetch" -> IF ~soupv.ok THEN "return" ELSE "extract"
    [] stage = "extract" -> IF offers = <<>> THEN "return" ELSE "save"
    [] stage = "save" -> "detect"
    [] stage = "detect" -> "return"
    [] OTHER -> "return"

\* scrape() saving (an empty list) when the fetch failed
scrape_flow_saveOnFail(stage, soupv, offers) ==
  CASE stage = "fetch" -> IF ~soupv.ok THEN "save" ELSE "extract"
    [] stage = "extract" -> IF offers = <<>> THEN "return" ELSE "detect"
    [] stage = "detect" -> "save"
    [] stage = "save" -> "return"
    [] OTHER -> "return"

\* scrape() without the early return on an empty offer list
scrape_flow_noEmptyCheck(stage, soupv, offers) ==
  CASE stage = "fetch" -> IF ~soupv.ok THEN "return" ELSE "extract"
    [] stage = "extract" -> "detect"
    [] stage = "detect" -> "save"
    [] stage = "save" -> "return"
    [] OTHER -> "return"

\* the statement scrape() runs after the given one (lines 429-449)
scrape_flow(stage, soupv, offers) ==
  CASE stage = "fetch" -> IF ~soupv.ok THEN "return" ELSE "extract"
    [] stage = "extract" -> IF offers = <<>> THEN "return" ELSE "detect"
    [] stage = "detect" -> "save"
    [] stage = "save" -> "return"
    [] OTHER -> "return"

\* ----------------------------------------------------------------- state
VARIABLES site, file, now, pc, soup, current_offers, new_offers, existing_data,
          ret, did_extract, did_detect, did_save, save_outcome, file_at_start, file_at_detect,
          file_at_save, result, last_check_written, prev, reported, save_failed, call,
          notification, monitor

locals == <<soup, current_offers, new_offers, existing_data, ret>>
cycle_hist == <<did_extract, did_detect, did_save, save_outcome, file_at_start, file_at_detect, file_at_save>>
sched == <<result, last_check_written, notification>>
hist == <<prev, reported, save_failed>>
vars == <<site, file, now, pc, locals, cycle_hist, sched, hist, call, monitor>>

\* fetch_page returned None
NoSoup == [ok |-> FALSE, doc |-> <<>>]
SoupOf(d) == [ok |-> TRUE, doc |-> d]

\* the last completed cycle: whether it saved the offers of the page, the ids whose
\* notification failed, and whether the page has changed since
\* reported[k]: the number of cycles that returned id k in new_offers, kept while no save
\* has failed; save_failed: some write of the data file has failed
NoPrev == [saved |-> FALSE, send_failed |-> {}, changed |-> FALSE]

\* the call of send_notification in a check: whether it was made, its argument, its result
NoNotification == [called |-> FALSE, offers |-> <<>>, success |-> FALSE, logged |-> <<>>]

\* one call of a function of the scraper on its own: the function, its arguments, its
\* result once it has returned
NoCall == [fn |-> "none", arg |-> <<>>, res |-> <<>>, done |-> FALSE]
CallOf(f, a) == [fn |-> f, arg |-> a, res |-> <<>>, done |-> FALSE]

\* nothing has run yet
\* the monitor after __init__, about to test the loop condition of run_scheduler: the
\* running flag, the place in the loop, and what the loop has done so far (loop
\* iterations entered, checks that returned False or raised, checks started after running
\* was set to False, the outcome of the last check)
NewMonitor ==
  [running |-> TRUE, at |-> "while", iterations |-> 0, failures |-> 0, started_after_stop |-> 0,
   last |-> None]

Idle ==
  /\ file = AbsentFile
  /\ now = 0
  /\ pc = [p \in Procs |-> "idle"]
  /\ soup = [p \in Procs |-> NoSoup]
  /\ current_offers = [p \in Procs |-> <<>>]
  /\ new_offers = [p \in Procs |-> <<>>]
  /\ existing_data = [p \in Procs |-> EmptyDict]
  /\ ret = [p \in Procs |-> <<<<>>, <<>>>>]
  /\ did_extract = [p \in Procs |-> FALSE]
  /\ did_detect = [p \in Procs |-> FALSE]
  /\ did_save = [p \in Procs |-> FALSE]
  /\ save_outcome = [p \in Procs |-> None]
  /\ file_at_start = [p \in Procs |-> AbsentFile]
  /\ file_at_detect = [p \in Procs |-> AbsentFile]
  /\ file_at_save = [p \in Procs |-> AbsentFile]
  /\ result = [p \in Procs |-> None]
  /\ last_check_written = [p \in Procs |-> FALSE]
  /\ notification = [p \in Procs |-> NoNotification]
  /\ monitor = NewMonitor
  /\ prev = NoPrev
  /\ reported = [k \in Ids |-> 0]
  /\ save_failed = FALSE

Init ==
  /\ site \in Docs
  /\ Idle
  /\ call = NoCall

\* the page changes between two cycles (several changes in a row count as one)
SiteUpdate ==
  /\ \A q \in Procs : pc[q] = "idle"
  /\ ~prev.changed
  /\ now < MaxCycles
  /\ \E d \in Docs : d # site /\ site' = d
  /\ prev' = [prev EXCEPT !.changed = TRUE]
  /\ UNCHANGED <<call, monitor, file, now, pc, locals, cycle_hist, sched, reported, save_failed>>

\* check_for_new_offers is entered and calls scrape(); cycles are serialized
Start(p) ==
  /\ \A q \in Procs : pc[q] = "idle"
  /\ now < MaxCycles
  /\ now' = now + 1
  /\ pc' = [pc EXCEPT ![p] = "fetch"]
  /\ file_at_start' = [file_at_start EXCEPT ![p] = file]
  /\ UNCHANGED <<call, monitor, site, file, locals, did_extract, did_detect, did_save, save_outcome, file_at_detect,
                 file_at_save, sched, hist>>

\* fetch_page: the document, or None on a transport failure (a RequestException); any other
\* exception of its try block, such as the parser rejecting the markup, is not caught by
\* fetch_page nor by scrape()
Fetch(p) ==
  /\ pc[p] = "fetch"
  /\ \E outcome \in {"ok", "RequestException", "other exception"} :
       LET s == IF outcome = "ok" THEN SoupOf(site) ELSE NoSoup
       IN /\ soup' = [soup EXCEPT ![p] = s]
          /\ pc' = [pc EXCEPT ![p] = IF outcome = "other exception" THEN "raised"
                                     ELSE scrape_flow("fetch", s, <<>>)]
  /\ UNCHANGED <<call, monitor, site, file, now, current_offers, new_offers, existing_data, ret, cycle_hist, sched, hist>>

\* extract_offers: one record per retained section; the detail pages are fetched in here
Extract(p) ==
  /\ pc[p] = "extract"
  /\ current_offers' = [current_offers EXCEPT ![p] = extract_offers(soup[p].doc)]
  /\ did_extract' = [did_extract EXCEPT ![p] = TRUE]
  /\ pc' = [pc EXCEPT ![p] = scrape_flow("extract", soup[p], extract_offers(soup[p].doc))]
  /\ UNCHANGED <<call, monitor, site, file, now, soup, new_offers, existing_data, ret, did_detect, did_save,
                 save_outcome, file_at_start, file_at_detect, file_at_save, sched, hist>>

\* find_new_offers: reads the data file and compares
Detect(p) ==
  /\ pc[p] = "detect"
  /\ new_offers' = [new_offers EXCEPT ![p] = find_new_offers(current_offers[p], load_previous_data(file))]
  /\ did_detect' = [did_detect EXCEPT ![p] = TRUE]
  /\ file_at_detect' = [file_at_detect EXCEPT ![p] = file]
  /\ pc' = [pc EXCEPT ![p] = scrape_flow("detect", soup[p], current_offers[p])]
  /\ UNCHANGED <<call, monitor, site, file, now, soup, current_offers, existing_data, ret, did_extract, did_save,
                 save_outcome, file_at_start, file_at_save, sched, hist>>

\* save_data, lines 376-386: load the file and merge the offers in memory
SaveLoad(p) ==
  /\ pc[p] = "save"
  /\ existing_data' = [existing_data EXCEPT ![p] = save_data(current_offers[p], load_previous_data(file), now)]
  /\ did_save' = [did_save EXCEPT ![p] = TRUE]
  /\ file_at_save' = [file_at_save EXCEPT ![p] = file]
  /\ pc' = [pc EXCEPT ![p] = "write"]
  /\ UNCHANGED <<call, monitor, site, file, now, soup, current_offers, new_offers, ret, did_extract, did_detect,
                 save_outcome, file_at_start, file_at_detect, sched, hist>>

\* save_data, lines 388-398: write the file; a failure is logged and swallowed
SaveWrite(p) ==
  /\ pc[p] = "write"
  /\ \E outcome \in {"ok", "error", "partial"} :
       /\ file' = write_file(file, existing_data[p], outcome)
       /\ save_outcome' = [save_outcome EXCEPT ![p] = outcome]
       /\ save_failed' = (save_failed \/ outcome # "ok")
       /\ reported' = IF outcome = "ok" THEN reported ELSE [k \in Ids |-> 0]
  /\ pc' = [pc EXCEPT ![p] = scrape_flow("save", soup[p], current_offers[p])]
  /\ UNCHANGED <<call, monitor, site, now, soup, current_offers, new_offers, existing_data, ret, did_extract,
                 did_detect, did_save, file_at_start, file_at_detect, file_at_save, sched, prev>>

\* what save_data returns to scrape(), whatever the outcome of the write
save_data_returns(outcome) == None

\* a scrape() that returns nothing when the save has failed
scrape_result_rollback(current, new, outcome) ==
  IF outcome \in {"error", "partial"} THEN <<<<>>, <<>>>> ELSE <<current, new>>

\* the pair scrape() returns; outcome is that of the cycle's write, None when there was none
scrape_result(current, new, outcome) == <<current, new>>

\* scrape() returns (all_offers, new_offers)
Return(p) ==
  /\ pc[p] = "return"
  /\ ret' = [ret EXCEPT ![p] = scrape_result(current_offers[p], new_offers[p], save_outcome[p])]
  /\ reported' = [k \in Ids |-> IF k \in OfferIds(new_offers[p]) /\ reported[k] < 2 /\ ~save_failed
                                 THEN reported[k] + 1 ELSE reported[k]]
  /\ pc' = [pc EXCEPT ![p] = "check"]
  /\ UNCHANGED <<call, monitor, site, file, now, soup, current_offers, new_offers, existing_data, cycle_hist, sched,
                 prev, save_failed>>

\* a check that notifies about every offer of the page
notification_arg_all(all_offers, new) == all_offers

\* the argument of send_notification (line 77)
notification_arg(all_offers, new) == new

\* send_notification is called (lines 69-75)
notifies(all_offers, new) == all_offers # <<>> /\ new # <<>>

\* a check that counts as successful although the notification failed
check_returns_ignoreSend(all_offers, new, success) == all_offers # <<>>

\* what check_for_new_offers returns when scrape() has returned (lines 69-91); success is
\* the result of send_notification
check_returns(all_offers, new, success) == all_offers # <<>> /\ (new = <<>> \/ success)

\* _log_notification_sent is called (lines 75-81)
logs_notification(new, success) == new # <<>> /\ success

\* [offer['numero_busqueda'] for offer in offers]
offers_notified(offers) == [i \in DOMAIN offers |-> offers[i].numero_busqueda]

\* logs/notifications.json: absent, unparsable, or a list of entries
AbsentLog == [kind |-> "absent", entries |-> <<>>]
CorruptLog == [kind |-> "corrupt", entries |-> <<>>]
ValidLog(entries) == [kind |-> "valid", entries |-> entries]

log_entry(offers, stamp) ==
  [timestamp |-> stamp, offers_notified |-> offers_notified(offers), total_offers |-> Len(offers)]

\* a cut of the log that keeps its oldest entries
last_entries_oldest(notifications_log) ==
  IF Len(notifications_log) > LogCap THEN SubSeq(notifications_log, 1, LogCap) ELSE notifications_log

\* notifications_log[-100:]
last_entries(notifications_log) ==
  IF Len(notifications_log) > LogCap
  THEN SubSeq(notifications_log, Len(notifications_log) - LogCap + 1, Len(notifications_log))
  ELSE notifications_log

\* the log file after _log_notification_sent(offers) at time stamp; outcome is that of the
\* open(log_file, 'w') / json.dump
log_notification_sent(offers, log_file, stamp, outcome) ==
  LET loaded == IF log_file.kind = "valid" THEN log_file.entries ELSE <<>>
      notifications_log == last_entries(Append(loaded, log_entry(offers, stamp)))
  IN IF outcome = "ok" THEN ValidLog(notifications_log)
     ELSE IF outcome = "partial" THEN CorruptLog
     ELSE log_file

\* the log file after lines 75-85 of check_for_new_offers
notification_log_after(new, success, log_file, stamp, outcome) ==
  IF logs_notification(new, success) THEN log_notification_sent(new, log_file, stamp, outcome)
  ELSE log_file

\* check_for_new_offers, lines 69-96, with the outcome of send_notification
Check(p) ==
  /\ pc[p] = "check"
  /\ \E sent \in BOOLEAN :
       LET all_offers == ret[p][1]
           new == ret[p][2]
           notify == notifies(all_offers, new)
           res == check_returns(all_offers, new, sent)
       IN /\ notify \/ sent
          /\ result' = [result EXCEPT ![p] = IF res THEN "True" ELSE "False"]
          /\ last_check_written' = [last_check_written EXCEPT ![p] = res]
          /\ notification' = [notification EXCEPT ![p] =
                IF notify THEN [called |-> TRUE, offers |-> notification_arg(all_offers, new), success |-> sent,
                                logged |-> IF logs_notification(new, sent) THEN offers_notified(new) ELSE <<>>]
                ELSE NoNotification]
          /\ prev' = [saved |-> save_outcome[p] = "ok",
                      send_failed |-> IF notify /\ ~sent THEN OfferIds(new) ELSE {}, changed |-> FALSE]
  /\ pc' = [pc EXCEPT ![p] = "done"]
  /\ UNCHANGED <<call, monitor, site, file, now, locals, cycle_hist, reported, save_failed>>

\* check_for_new_offers, lines 93-96: an exception out of scrape() is caught and logged,
\* and the check returns False
Except(p) ==
  /\ pc[p] = "raised"
  /\ result' = [result EXCEPT ![p] = "False"]
  /\ prev' = NoPrev
  /\ pc' = [pc EXCEPT ![p] = "failed"]
  /\ UNCHANGED <<call, monitor, site, file, now, locals, cycle_hist, last_check_written, notification, reported, save_failed>>

\* check_for_new_offers has returned; its locals are gone
Finish(p) ==
  /\ pc[p] \in {"done", "failed"}
  /\ pc' = [pc EXCEPT ![p] = "idle"]
  /\ soup' = [soup EXCEPT ![p] = NoSoup]
  /\ current_offers' = [current_offers EXCEPT ![p] = <<>>]
  /\ new_offers' = [new_offers EXCEPT ![p] = <<>>]
  /\ existing_data' = [existing_data EXCEPT ![p] = EmptyDict]
  /\ ret' = [ret EXCEPT ![p] = <<<<>>, <<>>>>]
  /\ did_extract' = [did_extract EXCEPT ![p] = FALSE]
  /\ did_detect' = [did_detect EXCEPT ![p] = FALSE]
  /\ did_save' = [did_save EXCEPT ![p] = FALSE]
  /\ save_outcome' = [save_outcome EXCEPT ![p] = None]
  /\ file_at_start' = [file_at_start EXCEPT ![p] = AbsentFile]
  /\ file_at_detect' = [file_at_detect EXCEPT ![p] = AbsentFile]
  /\ file_at_save' = [file_at_save EXCEPT ![p] = AbsentFile]
  /\ result' = [result EXCEPT ![p] = None]
  /\ last_check_written' = [last_check_written EXCEPT ![p] = FALSE]
  /\ notification' = [notification EXCEPT ![p] = NoNotification]
  /\ UNCHANGED <<call, monitor, site, file, now, hist>>

\* the scheduler's process: its checks run one after the other
Scheduler == 1

Next ==
  \/ SiteUpdate
  \/ Start(Scheduler)
  \/ Fetch(Scheduler)
  \/ Extract(Scheduler)
  \/ Detect(Scheduler)
  \/ SaveLoad(Scheduler)
  \/ SaveWrite(Scheduler)
  \/ Return(Scheduler)
  \/ Check(Scheduler)
  \/ Except(Scheduler)
  \/ Finish(Scheduler)

Spec == Init /\ [][Next]_vars

\* ------------------------------------------ two monitors over one data file
\* Two processes run check_for_new_offers over the same data directory with nothing that
\* keeps one from starting while the other is at work; each runs its steps in order, and
\* the steps of the two interleave. Two checks are started in all, over a page that begins
\* with at most one section.
InitConc ==
  /\ site \in DocsOf(1)
  /\ Idle
  /\ call = NoCall

StartConc(p) ==
  /\ pc[p] = "idle"
  /\ now < Cardinality(Procs)
  /\ now' = now + 1
  /\ pc' = [pc EXCEPT ![p] = "fetch"]
  /\ file_at_start' = [file_at_start EXCEPT ![p] = file]
  /\ UNCHANGED <<call, monitor, site, file, locals, did_extract, did_detect, did_save, save_outcome, file_at_detect,
                 file_at_save, sched, hist>>

\* the site publishes a second section at the end of the page, at any moment before the
\* second check starts
PublishOffer ==
  /\ ~prev.changed
  /\ now < Cardinality(Procs)
  /\ site \in DocsOf(1)
  /\ \E b \in Blocks : site \o b \in Docs /\ site' = site \o b
  /\ prev' = [prev EXCEPT !.changed = TRUE]
  /\ UNCHANGED <<call, monitor, file, now, pc, locals, cycle_hist, sched, reported, save_failed>>

NextConc ==
  \/ PublishOffer
  \/ \E p \in Procs :
       \/ StartConc(p)
       \/ Fetch(p)
       \/ Extract(p)
       \/ Detect(p)
       \/ SaveLoad(p)
       \/ SaveWrite(p)
       \/ Return(p)
       \/ Check(p)
       \/ Except(p)
       \/ Finish(p)

SpecConc == InitConc /\ [][NextConc]_vars

\* ------------------------------------------------- the functions on their own
cycle_vars == <<site, file, now, pc, locals, cycle_hist, sched, hist, monitor>>

Pending(f) == call.fn = f /\ ~call.done
Returns(r) == call' = [call EXCEPT !.res = r, !.done = TRUE]

SubsetsOfSections(doc) == SUBSET (1..Len(offer_sections(doc)))

\* the offers lists and the data files find_new_offers is called with
CurrentOffers == {extract_offers(d) : d \in Docs}
DataFiles ==
  {AbsentFile, CorruptFile, ForeignFile} \cup {ValidFile(offers_dict(offers), 0) : offers \in CurrentOffers}

\* a log of n entries written at times 1..n, and the log files a check can find
LogOf(n) == [i \in 1..n |-> [timestamp |-> i, offers_notified |-> <<1>>, total_offers |-> 1]]
LogFiles == {AbsentLog, CorruptLog} \cup {ValidLog(LogOf(n)) : n \in {1, LogCap - 1, LogCap}}
LogNow == LogCap + 1

InitCalls ==
  /\ site = <<>>
  /\ Idle
  /\ \/ \E d \in SegDocs : \E fail \in SubsetsOfSections(d) : call = CallOf("extract_offers", <<d, fail>>)
     \/ call \in {CallOf("extract_fields", <<t>>) : t \in FieldTexts}
     \/ call \in {CallOf("find_new_offers", <<offers, f>>) : offers \in CurrentOffers, f \in DataFiles}
     \/ call \in {CallOf("_log_notification_sent", <<new, success, log_file, outcome>>) :
                     new \in CurrentOffers, success \in BOOLEAN, log_file \in LogFiles,
                     outcome \in {"ok", "partial", "fail"}}
     \/ call \in {CallOf("_extract_offer_details_new", <<n, a, url, page>>) :
                     n \in {1}, a \in {"A"}, url \in {None, DetailUrl}, page \in Pages}

Call_extract_offers ==
  /\ Pending("extract_offers")
  /\ Returns(extract_offers_failing(call.arg[1], call.arg[2]))
  /\ UNCHANGED cycle_vars

Call_extract_offer_details_new ==
  /\ Pending("_extract_offer_details_new")
  /\ Returns(extract_offer_details_enriched(call.arg[1], call.arg[2], call.arg[3], call.arg[4]))
  /\ UNCHANGED cycle_vars

Call_extract_fields ==
  /\ Pending("extract_fields")
  /\ Returns(extract_fields(call.arg[1]))
  /\ UNCHANGED cycle_vars

Call_find_new_offers ==
  /\ Pending("find_new_offers")
  /\ Returns(find_new_offers_guarded(call.arg[1], call.arg[2]))
  /\ UNCHANGED cycle_vars

Call_log_notification_sent ==
  /\ Pending("_log_notification_sent")
  /\ Returns(notification_log_after(call.arg[1], call.arg[2], call.arg[3], LogNow, call.arg[4]))
  /\ UNCHANGED cycle_vars

NextCalls ==
  \/ Call_extract_offers
  \/ Call_log_notification_sent
  \/ Call_find_new_offers
  \/ Call_extract_fields
  \/ Call_extract_offer_details_new

SpecCalls == InitCalls /\ [][NextCalls]_vars

\* ---------------------------------------------------------------------------------------
\* The loop of run_scheduler, with the checks it starts seen only through their outcome:
\* "True" or "False" as check_for_new_offers returns them, "raised" for an exception out of
\* schedule.run_pending().
\* ---------------------------------------------------------------------------------------

Saturate(n) == IF n < MaxIterations THEN n + 1 ELSE n

\* a loop condition that does not look at running
while_test_forever(running) == "run_pending"

\* while self.running: the body is entered, or the loop is left
while_test(running) == IF running THEN "run_pending" ELSE "stopped"

\* where the loop goes when the check has ended: to the sleep of the try body, or to the
\* handler of 'except Exception'
after_check(outcome) == IF outcome = "raised" THEN "except" ELSE "sleep"

InitLoop ==
  /\ site = <<>>
  /\ Idle
  /\ call = NoCall

\* _signal_handler: SIGINT or SIGTERM arrives, at any place of the loop
Signal ==
  /\ monitor.running
  /\ monitor.at # "stopped"
  /\ monitor' = [monitor EXCEPT !.running = FALSE]
  /\ UNCHANGED <<call, site, file, now, pc, locals, cycle_hist, sched, hist>>

\* the test of 'while self.running'
WhileTest ==
  /\ monitor.at = "while"
  /\ monitor' = [monitor EXCEPT !.at = while_test(monitor.running),
                                 !.iterations = IF while_test(monitor.running) = "stopped" THEN @ ELSE Saturate(@)]
  /\ UNCHANGED <<call, site, file, now, pc, locals, cycle_hist, sched, hist>>

\* schedule.run_pending(): the job is due and check_for_new_offers starts, or it is not
RunPending ==
  /\ monitor.at = "run_pending"
  /\ \E due \in BOOLEAN :
       monitor' = [monitor EXCEPT !.at = IF due THEN "check" ELSE "sleep",
                                  !.started_after_stop = IF due /\ ~monitor.running THEN Saturate(@) ELSE @]
  /\ UNCHANGED <<call, site, file, now, pc, locals, cycle_hist, sched, hist>>

\* the check ends: it returns True or False, or an exception leaves run_pending
CheckEnds ==
  /\ monitor.at = "check"
  /\ \E outcome \in {"True", "False", "raised"} :
       monitor' = [monitor EXCEPT !.at = after_check(outcome),
                                  !.last = outcome,
                                  !.failures = IF outcome = "True" THEN @ ELSE Saturate(@)]
  /\ UNCHANGED <<call, site, file, now, pc, locals, cycle_hist, sched, hist>>

\* time.sleep(60) at the end of the try body
Sleep ==
  /\ monitor.at = "sleep"
  /\ monitor' = [monitor EXCEPT !.at = "while"]
  /\ UNCHANGED <<call, site, file, now, pc, locals, cycle_hist, sched, hist>>

\* time.sleep(60) in the handler of 'except Exception'
ExceptSleep ==
  /\ monitor.at = "except"
  /\ monitor' = [monitor EXCEPT !.at = "while"]
  /\ UNCHANGED <<call, site, file, now, pc, locals, cycle_hist, sched, hist>>

NextLoop == Signal \/ WhileTest \/ RunPending \/ CheckEnds \/ Sleep \/ ExceptSleep

\* the loop is one thread that runs on: a sleep ends, a started check ends (its requests
\* carry timeout=30), the test is made; nothing obliges a signal to arrive
SpecLoop ==
  /\ InitLoop
  /\ [][NextLoop]_vars
  /\ WF_vars(WhileTest) /\ WF_vars(RunPending) /\ WF_vars(CheckEnds)
  /\ WF_vars(Sleep) /\ WF_vars(ExceptSleep)

\* ---------------------------------------------------------------- claims
Returned(p) == pc[p] \in {"check", "done"}
Keys(f) == DOMAIN f.ofertas

\* C1: in every cycle detection reads the data file before the cycle's save writes it: the
\* save is never started before detection, detection sees the file as it was when the cycle
\* began, and every current offer whose id was not stored then is in new_offers.
Thm_C1 ==
  \A p \in Procs :
    /\ did_save[p] => did_detect[p]
    /\ did_detect[p] => file_at_detect[p] = file_at_start[p]
    /\ (Returned(p) /\ current_offers[p] # <<>>) =>
         \A i \in DOMAIN current_offers[p] :
           current_offers[p][i].numero_busqueda \notin Keys(file_at_start[p])
             => \E j \in DOMAIN ret[p][2] : ret[p][2][j] = current_offers[p][i]

Wit_C1 ==
  \E p \in Procs : /\ pc[p] = "check" /\ save_outcome[p] = "ok" /\ ret[p][2] # <<>>
                   /\ file # file_at_start[p]
                   /\ OfferIds(ret[p][2]) \subseteq Keys(file)

CE_C3 ==
  \A p \in Procs :
    (pc[p] = "check" /\ soup[p].ok /\ ~prev.changed) => prev.send_failed \subseteq OfferIds(ret[p][2])

\* C4: find_new_offers returns exactly the current offers whose id is not a key of the
\* persisted 'ofertas' mapping, in the order of current_offers, whatever their other fields.
IsNewAt(p, o) == o.numero_busqueda \notin Keys(file_at_detect[p])

Thm_C4 ==
  \A p \in Procs :
    did_detect[p] => new_offers[p] = SelectSeq(current_offers[p], LAMBDA o : IsNewAt(p, o))

Wit_C4 ==
  \E p \in Procs :
    /\ did_detect[p]
    /\ Len(new_offers[p]) >= 1
    /\ \E i \in DOMAIN current_offers[p] :
         LET o == current_offers[p][i]
         IN /\ o.numero_busqueda \in Keys(file_at_detect[p])
            /\ file_at_detect[p].ofertas[o.numero_busqueda] # o
            /\ \E j \in DOMAIN current_offers[p] : j > i /\ IsNewAt(p, current_offers[p][j])

\* C5: when the data file does not exist at the start of a cycle that fetched the page,
\* scrape() returns new_offers equal to all current offers, in document order.
Thm_C5 ==
  \A p \in Procs :
    (pc[p] = "check" /\ soup[p].ok /\ file_at_start[p].kind = "absent") =>
       /\ ret[p][1] = current_offers[p]
       /\ ret[p][2] = ret[p][1]

Wit_C5 ==
  \E p \in Procs : /\ pc[p] = "check" /\ soup[p].ok /\ file_at_start[p].kind = "absent"
                   /\ Len(ret[p][2]) >= 2
                   /\ ret[p][2][1].numero_busqueda # ret[p][2][2].numero_busqueda

\* C6: the list extract_offers returns holds at most one record per numero_busqueda.
CE_C6 ==
  \A p \in Procs : \A i, j \in DOMAIN current_offers[p] :
    i # j => current_offers[p][i].numero_busqueda # current_offers[p][j].numero_busqueda

\* C7: no step of the program removes an offer id from the 'ofertas' mapping of the data file.
CE_C7 == [][Keys(file) \subseteq Keys(file')]_vars

\* C8: after a successful save_data(offers) the stored record of every id in offers is the
\* record from offers (the last one when offers repeats the id), every stored record whose
\* id is not in offers is as it was loaded, no other key appears, and ultima_actualizacion
\* is the time of the save.
Thm_C8 ==
  \A p \in Procs :
    (save_outcome[p] = "ok" /\ pc[p] \in {"return", "check", "done"}) =>
       LET offers == current_offers[p]
           old == file_at_save[p].ofertas
       IN /\ \A i \in DOMAIN offers :
               (\A j \in DOMAIN offers : j > i => offers[j].numero_busqueda # offers[i].numero_busqueda)
                 => /\ offers[i].numero_busqueda \in Keys(file)
                    /\ file.ofertas[offers[i].numero_busqueda] = offers[i]
          /\ \A k \in DOMAIN old \ OfferIds(offers) : k \in Keys(file) /\ file.ofertas[k] = old[k]
          /\ Keys(file) = DOMAIN old \cup OfferIds(offers)
          /\ file.kind = "valid"
          /\ file.ultima_actualizacion = now

Wit_C8 ==
  \E p \in Procs :
    /\ save_outcome[p] = "ok" /\ pc[p] = "return"
    /\ \E k \in Keys(file_at_save[p]) : k \notin OfferIds(current_offers[p])
    /\ \E i \in DOMAIN current_offers[p] :
         /\ current_offers[p][i].numero_busqueda \in Keys(file_at_save[p])
         /\ file_at_save[p].ofertas[current_offers[p][i].numero_busqueda] # current_offers[p][i]
    /\ file.ultima_actualizacion # file_at_save[p].ultima_actualizacion

\* C9: when the page fetch fails, scrape() returns ([], []), fetches no detail page, runs
\* neither extraction (where the detail pages are fetched), detection nor save, and leaves the data file as it was.
Thm_C9 ==
  \A p \in Procs :
    (Returned(p) /\ ~soup[p].ok) =>
       /\ ret[p] = <<<<>>, <<>>>>
       /\ ~did_extract[p]
       /\ ~did_detect[p]
       /\ ~did_save[p]
       /\ file = file_at_start[p]

Wit_C9 ==
  \E p \in Procs : pc[p] = "check" /\ ~soup[p].ok /\ file.kind = "valid" /\ site # <<>>

Called(f) == call.fn = f /\ call.done

Thm_C12 ==
  \A p \in Procs :
    (Returned(p) /\ save_outcome[p] \in {"ok", "error", "partial"}) =>
       /\ ret[p][1] = current_offers[p]
       /\ ret[p][2] = SelectSeq(current_offers[p],
                                LAMBDA o : o.numero_busqueda \notin Keys(file_at_start[p]))
       /\ ret[p][1] # <<>>

Wit_C12 ==
  \E p \in Procs : /\ pc[p] = "check" /\ save_outcome[p] \in {"error", "partial"}
                   /\ ret[p][2] # <<>> /\ ret[p][2] # ret[p][1]

\* C13: every step leaves the data file as it was or holding the complete merged mapping
\* of the save in progress; it is never left truncated or partial.
CE_C13 ==
  [][\/ file' = file
     \/ \E p \in Procs : /\ pc[p] = "write"
                          /\ file' = ValidFile(existing_data[p].ofertas, existing_data[p].ultima_actualizacion)]_vars

\* C14: when the write of the data file fails, what save_data returns or what scrape()
\* returns differs from what it returns when the same write succeeds.
CE_C14 ==
  \A p \in Procs :
    (Returned(p) /\ save_outcome[p] \in {"error", "partial"}) =>
       \/ save_data_returns(save_outcome[p]) # save_data_returns("ok")
       \/ ret[p] # scrape_result(current_offers[p], new_offers[p], "ok")

\* C20: scrape() never raises: no outcome of the fetch makes an exception leave scrape().
CE_C20 == \A p \in Procs : pc[p] # "raised"

\* the arguments of the call of _extract_offer_details_new
EnrichBase == offer_data(call.arg[1], call.arg[2], call.arg[3])
EnrichUrl == call.arg[3]
EnrichPage == call.arg[4]

\* C15: every field the detail page yields is in the merged record with the detail page's
\* value, and every other field of the record built from the listing page keeps its value.
Thm_C15 ==
  (Called("_extract_offer_details_new") /\ EnrichUrl # None /\ EnrichPage.ok) =>
     LET info == fetch_detailed_info(EnrichPage)
     IN /\ "descripcion_completa" \in DOMAIN info
        /\ \A k \in DOMAIN info : k \in DOMAIN call.res /\ call.res[k] = info[k]
        /\ \A k \in DOMAIN EnrichBase \ DOMAIN info : call.res[k] = EnrichBase[k]
        /\ DOMAIN call.res = DOMAIN EnrichBase \cup DOMAIN info

Wit_C15 ==
  /\ Called("_extract_offer_details_new")
  /\ EnrichUrl # None /\ EnrichPage.ok
  /\ EnrichBase.contacto_email = None
  /\ call.res.contacto_email = "jobs@acme.com"
  /\ call.res.area = "A"

\* C16: when the detail page cannot be fetched or parsed, _extract_offer_details_new still
\* returns the record built from the listing page, with contacto_email None and no
\* descripcion_completa.
Thm_C16 ==
  (Called("_extract_offer_details_new") /\ EnrichUrl # None /\ ~EnrichPage.ok) =>
     /\ call.res = EnrichBase
     /\ call.res.contacto_email = None
     /\ "descripcion_completa" \notin DOMAIN call.res

Wit_C16 ==
  /\ Called("_extract_offer_details_new")
  /\ EnrichUrl = DetailUrl /\ ~EnrichPage.ok
  /\ call.res.numero_busqueda = 1 /\ call.res.mas_informacion_url = DetailUrl

\* the pieces of the page that are the phrase followed, after optional whitespace, by an address
PhraseAt(text) ==
  {i \in 1..Len(text) : /\ text[i] = PhraseTok
                        /\ \E j \in (i + 1)..Len(text) :
                             /\ text[j] \in EmailToks
                             /\ \A k \in (i + 1)..(j - 1) : text[k] = SpaceTok}
\* the address that follows the phrase at piece i
AddressAfter(text, i) == text[Min({j \in (i + 1)..Len(text) : text[j] \in EmailToks})]
\* the pieces that are an address whose lower-cased form is not excluded
Qualifying(text) == {i \in 1..Len(text) : text[i] \in EmailToks /\ Lower(text[i]) \notin exclude_emails}

\* C17: the contact address is the one that follows the first occurrence of the phrase
\* followed by an address, whatever addresses come before it; without such an occurrence it
\* is the first address whose lower-cased form is not excluded; without one of these the
\* record has no contact address.
Thm_C17 ==
  (Called("_extract_offer_details_new") /\ EnrichUrl # None /\ EnrichPage.ok) =>
     LET text == EnrichPage.text
     IN call.res.contacto_email =
          IF PhraseAt(text) # {} THEN AddressAfter(text, Min(PhraseAt(text)))
          ELSE IF Qualifying(text) # {} THEN text[Min(Qualifying(text))]
          ELSE None

Wit_C17 ==
  /\ Called("_extract_offer_details_new") /\ EnrichUrl # None /\ EnrichPage.ok
  /\ PhraseAt(EnrichPage.text) # {}
  /\ Qualifying(EnrichPage.text) # {}
  /\ Min(Qualifying(EnrichPage.text)) < Min(PhraseAt(EnrichPage.text))
  /\ call.res.contacto_email # EnrichPage.text[Min(Qualifying(EnrichPage.text))]

\* C18: each of the three extractors returns None or a non-empty string, and None for a
\* text that does not hold the field's label.
CE_C18 ==
  Called("extract_fields") =>
    LET text == call.arg[1]
        Has(tok) == \E i \in 1..Len(text) : text[i] = tok
    IN /\ \A f \in DOMAIN call.res : call.res[f].found => call.res[f].value # <<>>
       /\ ~Has(FechaLabel) => ~call.res.fecha_publicacion.found
       /\ ~Has(HorarioLabel) => ~call.res.horario.found
       /\ ~(Has(AsignWord) /\ Has(EstimuloLabel)) => ~call.res.asignacion_estimulo.found

\* the first token of the page with the markup of the heading at i
FirstLike(doc, i) == Min({j \in 1..i : doc[j] = doc[i]})
\* the heading at i is kept and a marker with digits lies whole within the 2000 characters
\* that begin at the first heading with its markup
HasId(doc, i) ==
  /\ doc[i].kind = "h2" /\ doc[i].text # DeniedHeading
  /\ \E k \in FirstLike(doc, i)..Len(doc) :
       /\ doc[k].kind = "marker" /\ doc[k].id \in Ids
       /\ Pos(doc, k) + MarkerLen <= Pos(doc, FirstLike(doc, i)) + Window

\* C19: extract_offers returns, and every record it returns has a numero_busqueda of one or
\* more digits; when no section fails there is exactly one record per kept heading for
\* which a marker with digits is found, so a heading without one is not emitted.
Thm_C19 ==
  Called("extract_offers") =>
    LET doc == call.arg[1]
    IN /\ \A i \in DOMAIN call.res : call.res[i].numero_busqueda \in Ids
       /\ Len(call.res) <= Cardinality({i \in 1..Len(doc) : HasId(doc, i)})
       /\ call.arg[2] = {} => Len(call.res) = Cardinality({i \in 1..Len(doc) : HasId(doc, i)})

Wit_C19 ==
  /\ Called("extract_offers")
  /\ call.arg[2] = {}
  /\ Len(call.res) = 1
  /\ \E i \in 1..(Len(call.arg[1]) - 1) :
       /\ call.arg[1][i].kind = "h2" /\ call.arg[1][i].text # DeniedHeading
       /\ ~HasId(call.arg[1], i)
       /\ call.arg[1][i + 1] = BareMarker

\* C21: in a check whose scrape() has returned, send_notification is called exactly when
\* new_offers is not empty, with new_offers as its argument, and no offer of the argument
\* has an id that was stored when the cycle began; a check whose scrape() raised calls nothing.
Thm_C21 ==
  \A p \in Procs :
    /\ pc[p] = "done" =>
         /\ notification[p].called <=> ret[p][2] # <<>>
         /\ notification[p].called => notification[p].offers = ret[p][2]
         /\ \A i \in DOMAIN notification[p].offers :
              notification[p].offers[i].numero_busqueda \notin Keys(file_at_start[p])
    /\ pc[p] # "done" => ~notification[p].called

Wit_C21 ==
  \E p \in Procs : /\ pc[p] = "done" /\ notification[p].called
                   /\ Len(ret[p][1]) > Len(notification[p].offers)
                   /\ \E i \in DOMAIN ret[p][1] : ret[p][1][i].numero_busqueda \in Keys(file_at_start[p])

\* C28: every check ends by returning True or False, also when scrape() raised; it returns
\* True exactly when scrape() returned a non-empty all_offers and new_offers was empty or
\* send_notification succeeded; the last-check time is written in the checks that return
\* True and in no other.
Thm_C28 ==
  \A p \in Procs :
    /\ pc[p] \in {"done", "failed"} =>
         /\ result[p] \in {"True", "False"}
         /\ result[p] = "True" <=>
              /\ pc[p] = "done"
              /\ ret[p][1] # <<>>
              /\ (ret[p][2] = <<>> \/ (notification[p].called /\ notification[p].success))
         /\ last_check_written[p] <=> result[p] = "True"
    /\ pc[p] \notin {"done", "failed"} => ~last_check_written[p]

Wit_C28 ==
  \E p \in Procs : /\ pc[p] = "done" /\ notification[p].called /\ ~notification[p].success
                   /\ result[p] = "False" /\ ~last_check_written[p] /\ save_outcome[p] = "ok"

\* both cycles have written the data file and neither has ended
BothSaved == \A p \in Procs : save_outcome[p] = "ok" /\ pc[p] \in {"return", "check", "done"}

\* C22: when the cycles of two monitors interleave, an id that both report as new was in
\* the file at neither's detection, and an id that one cycle has merged and stored and that
\* the file holding the other's write lacks was not in the file when the other loaded it:
\* each cycle is right about the file it read, and nothing but the order of the steps
\* decides whether an id is reported twice or lost.
Thm_C22 ==
  BothSaved =>
    \A p \in Procs : \A q \in Procs \ {p} : \A k \in Ids :
      /\ (k \in OfferIds(new_offers[p]) /\ k \in OfferIds(new_offers[q])) =>
           (k \notin Keys(file_at_detect[p]) /\ k \notin Keys(file_at_detect[q]))
      /\ (/\ k \in DOMAIN existing_data[q].ofertas
          /\ file.ofertas = existing_data[p].ofertas
          /\ k \notin Keys(file)) => k \notin Keys(file_at_save[p])

Wit_C22 ==
  /\ BothSaved
  /\ file.kind = "valid"
  /\ \E p \in Procs : \E q \in Procs \ {p} : \E k, m \in Ids :
       /\ k \in OfferIds(new_offers[p]) /\ k \in OfferIds(new_offers[q])
       /\ m \in DOMAIN existing_data[q].ofertas
       /\ m \notin Keys(file)
       /\ file.ofertas = existing_data[p].ofertas

\* the page of the call of extract_offers, its sections and their spans
SegDoc == call.arg[1]
SegSecs == offer_sections(SegDoc)

\* C23: the h2_pos of the sections grow strictly in heading order, no span ends before it
\* starts, and a section's span ends where the next one starts, so no two spans share a
\* character, also when two headings have the same markup.
CE_C23 ==
  Called("extract_offers") =>
    \A i \in 1..Len(SegSecs) :
      /\ section_span(SegDoc, i).start_pos < section_span(SegDoc, i).end_pos
      /\ \A j \in (i + 1)..Len(SegSecs) :
           /\ SegSecs[i].h2_pos < SegSecs[j].h2_pos
           /\ section_span(SegDoc, i).end_pos <= section_span(SegDoc, j).start_pos

\* C24: the marker that gives a section its id lies inside the section's span, and no
\* marker gives its id to two sections.
CE_C24 ==
  Called("extract_offers") =>
    \A i \in 1..Len(SegSecs) :
      /\ section_span(SegDoc, i).start_pos <= SegSecs[i].match_pos
      /\ SegSecs[i].match_pos < section_span(SegDoc, i).end_pos
      /\ \A j \in 1..Len(SegSecs) : i # j => SegSecs[i].match_pos # SegSecs[j].match_pos

\* the heading at i is not on the denylist and a marker with digits lies whole within the
\* 2000 characters that begin at the heading's own position
InOwnWindow(doc, i) ==
  /\ doc[i].kind = "h2" /\ doc[i].text # DeniedHeading
  /\ \E k \in i..Len(doc) :
       /\ doc[k].kind = "marker"
       /\ Pos(doc, k) + MarkerLen <= Pos(doc, i) + Window

\* C25: the sections are, in order, the headings that are not on the denylist and have the
\* marker within the window that begins at their own position; every other heading
\* produces no offer.
CE_C25 ==
  (Called("extract_offers") /\ call.arg[2] = {}) =>
    LET kept == SelectSeq([i \in 1..Len(SegDoc) |-> i], LAMBDA i : InOwnWindow(SegDoc, i))
    IN /\ Len(call.res) = Len(kept)
       /\ \A n \in 1..Len(kept) : n <= Len(call.res) => call.res[n].area = SegDoc[kept[n]].text

\* a is b with some elements left out, the others in the order of b
RECURSIVE IsSubSeq(_, _)
IsSubSeq(a, b) ==
  IF a = <<>> THEN TRUE
  ELSE IF b = <<>> THEN FALSE
  ELSE IF Head(a) = Head(b) THEN IsSubSeq(Tail(a), Tail(b))
  ELSE IsSubSeq(a, Tail(b))

\* C26: what find_new_offers returns is a sub-sequence of the current offers it was given,
\* same records in the same order, whether the comparison went through or raised.
Thm_C26 ==
  Called("find_new_offers") => IsSubSeq(call.res, call.arg[1])

\* the comparison went through: of two current offers the stored one was left out and
\* the other one reported
Wit_C26 ==
  /\ Called("find_new_offers")
  /\ call.arg[2].kind = "valid"
  /\ Len(call.res) = 1
  /\ Len(call.arg[1]) = 2
  /\ call.res[1] = call.arg[1][2]

\* C27: when the data file is absent, unreadable or makes the comparison raise, every
\* current offer is reported; in every case each offer a comparison against the stored
\* mapping would report is reported.
Thm_C27 ==
  Called("find_new_offers") =>
    LET f == call.arg[2]
        expected == find_new_loop(call.arg[1], f.ofertas, 1)
    IN /\ f.kind # "valid" => call.res = call.arg[1]
       /\ IsSubSeq(expected, call.res)

\* the comparison raised on a foreign file and two current offers were reported
Wit_C27 ==
  /\ Called("find_new_offers")
  /\ call.arg[2].kind = "foreign"
  /\ Len(call.arg[1]) = 2
  /\ call.res = call.arg[1]

\* the entries of a log file
Entries(log_file) == IF log_file.kind = "valid" THEN log_file.entries ELSE <<>>

\* a is the end of b
IsSuffix(a, b) == Len(a) <= Len(b) /\ a = SubSeq(b, Len(b) - Len(a) + 1, Len(b))

\* C29: the notification log never has more than 100 entries and its entries are in the
\* order of their times; the file changes only when send_notification returned success for
\* a non-empty new_offers, and what is then written is the end of the old log followed by
\* one entry that lists the ids of the notified offers, the oldest entry dropped at 100.
Thm_C29 ==
  Called("_log_notification_sent") =>
    LET new == call.arg[1]
        success == call.arg[2]
        log_file == call.arg[3]
        outcome == call.arg[4]
        after == Entries(call.res)
        full == Append(Entries(log_file), log_entry(new, LogNow))
    IN /\ Len(after) <= LogCap
       /\ \A i, j \in 1..Len(after) : i < j => after[i].timestamp < after[j].timestamp
       /\ call.res # log_file => new # <<>> /\ success
       /\ (new # <<>> /\ success /\ outcome = "ok") =>
            /\ call.res.kind = "valid"
            /\ IsSuffix(after, full)
            /\ Len(after) = IF Len(full) > LogCap THEN LogCap ELSE Len(full)
            /\ after[Len(after)].offers_notified = [i \in DOMAIN new |-> new[i].numero_busqueda]
            /\ after[Len(after)].total_offers = Len(new)

\* a notification of two offers was logged into a log that was full: the oldest entry
\* went and the log still has 100 entries
Wit_C29 ==
  /\ Called("_log_notification_sent")
  /\ Len(call.arg[1]) = 2 /\ call.arg[2] /\ call.arg[4] = "ok"
  /\ Len(call.arg[3].entries) = LogCap
  /\ Len(call.res.entries) = LogCap
  /\ call.res.entries[1].timestamp = 2
  /\ call.res.entries[LogCap].timestamp = LogNow

====
